---- MODULE Spec2Model ----
(***************************************************************************)
(* Model of static/assistant.js: the client that submits a turn, polls the *)
(* pipeline status of the pending turn (startStatusPolling), renders the   *)
(* status panel (updateProcessingStepsDisplay), inserts the final          *)
(* assistant bubble (addMessageToChat) and then polls the message detail   *)
(* for critique data (startCriticPolling).                                 *)
(*                                                                         *)
(* The JavaScript runtime is single threaded: every callback runs to its   *)
(* end or to its next await.  Each action below is one such run.  The      *)
(* backend is the environment: its answers are drawn from small sets.      *)
(* Time is abstract: a timer that is armed may fire at any later step.     *)
(***************************************************************************)
EXTENDS Integers, Sequences, FiniteSets, TLC

\* ------------------------------------------------------------------ bounds
\* Poll requests (status and message-detail, all turns) issued in one run: the
\* ticks of the 700 ms and 2 s intervals that are explored.
MaxRequests == 3
\* Requests of one loop that may be awaiting their response at once.
MaxInflight == 2
\* Clicks on the refresh button in one run.
MaxRefreshes == 1
\* Elements on the surface when the surface operations are applied on their own.
MaxSurface == 2
\* Poll requests issued in one run in which both turns are submitted.
MaxSessionRequests == 2

\* The turns of a run (each one handleSend and what follows from it), and
\* those among them whose one-second timer fires within the run, so that
\* sendToServer runs for them: a later turn is typed while an earlier one is
\* still being answered.
Turns == {1, 2}
Submitted == {1}

\* ------------------------------------------------------------- vocabulary
\* The closed set of pipeline status codes, in progression order (the keys of
\* statusMap in formatStatus).
StatusOrder ==
  << "processing_started", "ner_started", "ner_completed", "ner_error",
     "search_started", "search_call_completed", "search_completed",
     "search_error", "generating_response", "response_generated",
     "response_error", "completed", "error" >>

Statuses == { StatusOrder[i] : i \in 1..Len(StatusOrder) }

\* Position of a status code in the progression; the empty string (no status
\* rendered yet) comes before all of them.
Rank(s) == IF s \in Statuses
             THEN CHOOSE i \in 1..Len(StatusOrder) : StatusOrder[i] = s
             ELSE 0

\* The statuses the modelled backend passes through: two that are not final
\* and the three final ones.
ServerStatuses ==
  {"processing_started", "search_started", "response_generated", "completed", "error"}

\* The statuses the backend passes through when both turns are submitted.
SessionStatuses == {"processing_started", "completed"}

\* The statuses on which the status loop shows the final response.
IsFinalStatus(s) == s = "response_generated" \/ s = "completed" \/ s = "error"

\* The four processing-data fields of a status response.
Fields == {"ner_results", "search_call", "search_results", "thinking"}

\* JavaScript undefined / null / '' for the values the model passes around.
Undefined == <<>>
NoContent == <<>>
NULL == "null"

\* The defaults of addMessageToChat's parentId and outputNumber (null): like
\* every falsy value they leave the element without the attribute.
NoParent == <<>>
NoOutput == 0

\* Identifiers of the elements addMessageToChat creates.
TempUserId == <<"temp-user">>
TempAssistantId == <<"temp-assistant">>
TempUserTsId(t) == <<"temp-user-", t>>
TempAssistantTsId(t) == <<"temp-assistant-", t>>
ErrorId == <<"error">>
\* Server-issued identifiers: user_message.id and message_id of turn t.
UserMsgId(t) == <<"user", t>>
MessageId(t) == <<"assistant", t>>

\* Texts.
UserInput(t) == <<"user_input", t>>
UserContent(t) == <<"user_message.content", t>>
Content(t) == <<"content", t>>
ThinkingText == <<"Assistant is thinking...">>
TypingText == <<"Assistant is typing...">>
SubmitErrorText(t) == <<"data.error", t>>
TransportErrorText == <<"Error: Failed to get response from server.">>

ChatIds == {"chat1"}

\* The chat ids the backend issues in a session that is reset in between.
SessionChatIds == {"chat1", "chat2"}

\* Critic scores the backend reports, as the decimal digits of the JSON number.
Scores == { <<8>> }

\* Number.prototype.toString of a score: the digits as they are.
ToString10(score) == score

\* parseFloat(score).toFixed(1): exactly one digit after the point.
ToFixed1(score) == IF Len(score) = 1 THEN <<score[1], 0>> ELSE <<score[1], score[2]>>

VARIABLES
  currentChatId,       \* the global of line 2
  messages,            \* the children of #messages, in document order
  phase,               \* per turn: where handleSend/sendToServer stands
  srvStatus,           \* per turn: the backend's pipeline status (environment)
  pollInterval,        \* per turn: the 700 ms interval is set (not cleared)
  pollCeiling,         \* per turn: the 180 s timeout is armed and has not fired
  lastStatus,          \* per turn: closure variable lastStatus
  finalResponseShown,  \* per turn: closure variable finalResponseShown
  inflight,            \* per turn: status requests awaiting their response
  stepsContainer,      \* per turn: what the processing-steps element shows
  criticInterval,      \* per turn: the 2 s interval is set (not cleared)
  criticCeiling,       \* per turn: the 120 s timeout is armed and has not fired
  criticShown,         \* per turn: closure variable criticShown
  criticInflight,      \* per turn: message-detail requests awaiting their response
  requests,            \* poll requests issued so far, by both loops of all turns
  seen,                \* per turn: the statuses of the responses handled so far (history)
  ordered,             \* per turn: those responses came in non-decreasing status order (history)
  renders,             \* per turn: how often the status panel was rendered (history)
  bubbles,             \* per turn: assistant bubbles created by the status loop (history)
  handled,             \* per turn: how many status responses were handled (history)
  finalsSeen,          \* per turn: kinds of final-status responses handled: "empty", "content" (history)
  criticStarts,        \* per turn: how often startCriticPolling ran (history)
  purges,              \* per turn: how often the turn's code called removePlaceholders (history)
  limits,              \* what a run explores: the request budget, the submitted turns and
                       \* the statuses the backend passes through
  scoreInflight,       \* bulk score requests of pollCriticScores awaiting their response
  detailInflight,      \* per turn: message-detail requests of pollCriticScores awaiting their
                       \* response, each with the epoch in which its element was looked up
  epoch,               \* how often refreshSession ran: elements of an earlier epoch are detached
  critiqueDisplays,    \* per turn: how often a critique panel was displayed for the message (history)
  changes,             \* per turn: deliveries pollCriticScores treated as a changed score (history)
  writers,             \* per turn: the writers that have set the badge of the message (history)
  sentInEpoch,         \* per turn: the epoch in which sendToServer ran for it (history)
  startPending,        \* the response to startNewChat() has not arrived yet
  preferInflight,      \* prefer requests awaiting their response: the chat id, parent
                       \* message id and output number each was sent with
  parseFailed          \* per turn: the critic loop, while watching, met a search_output that
                       \* is not JSON (history)

vars == << currentChatId, messages, phase, srvStatus, pollInterval, pollCeiling,
           lastStatus, finalResponseShown, inflight, stepsContainer,
           criticInterval, criticCeiling, criticShown, criticInflight,
           requests, seen, ordered, renders, bubbles, handled, finalsSeen,
           criticStarts, purges, limits, scoreInflight, detailInflight, epoch,
           critiqueDisplays, changes, writers, parseFailed, preferInflight,
                  sentInEpoch, startPending >>

\* ------------------------------------------------------------ DOM helpers
\* A message bubble: the div addMessageToChat builds.  badges holds the
\* textContent of each .critic-score child, in document order; displayed is
\* the data-critique-displayed attribute, parent and output the data-parent-id
\* and data-output-number attributes (set only for a value that is not null),
\* hidden is style.display = 'none'.
Bubble(id, text, role, isDummy, badges, parentId, outputNumber) ==
  [ cls |-> IF role = "assistant" THEN "assistant-message" ELSE "user-message",
    id |-> id, text |-> text, dummy |-> isDummy, badges |-> badges,
    displayed |-> FALSE, parent |-> parentId, output |-> outputNumber,
    hidden |-> FALSE ]

\* The processing-steps element of a turn (it carries no data-message-id).
StepsElement(t) ==
  [ cls |-> "processing-steps", id |-> <<"processing-steps-", t>>,
    text |-> <<>>, dummy |-> FALSE, badges |-> <<>>, displayed |-> FALSE,
    parent |-> NoParent, output |-> NoOutput, hidden |-> FALSE ]

HasMessageId(e) == e.cls \in {"assistant-message", "user-message"}

\* A lookup that never finds the element.
QueryMessage_NotFound(ms, id) == 0

\* document.querySelector(`[data-message-id='${id}']`): the index of the first
\* bubble with that id, 0 when there is none.
QueryMessage(ms, id) ==
  IF \E i \in 1..Len(ms) : HasMessageId(ms[i]) /\ ms[i].id = id
    THEN CHOOSE i \in 1..Len(ms) :
           /\ HasMessageId(ms[i]) /\ ms[i].id = id
           /\ \A j \in 1..(i-1) : ~(HasMessageId(ms[j]) /\ ms[j].id = id)
    ELSE 0

\* A badge write that adds a node on every call.
SetBadge_Append(badges, text) == Append(badges, text)

\* The existing-message branch of a badge write: querySelector('.critic-score')
\* takes the first badge, a badge is created only when there is none, and its
\* text is overwritten.
SetBadge(badges, text) ==
  IF Len(badges) = 0 THEN <<text>> ELSE [badges EXCEPT ![1] = text]

\* An upsert whose existing-message branch also replaces the text.
addMessageToChat_OverwritesText(ms, id, text, role, criticScore, isDummy, parentId, outputNumber) ==
  LET i == QueryMessage(ms, id) IN
  IF i # 0
    THEN [ms EXCEPT ![i].text = text,
                    ![i].badges = IF criticScore # Undefined
                                    THEN SetBadge(@, ToString10(criticScore)) ELSE @]
    ELSE Append(ms, Bubble(id, text, role, isDummy,
                           IF role = "assistant" /\ criticScore # Undefined
                             THEN <<ToString10(criticScore)>> ELSE <<>>,
                           parentId, outputNumber))

\* addMessageToChat(id, text, role, criticScore, isDummy, parentId, outputNumber):
\* callers that leave the last two out pass null.
addMessageToChat(ms, id, text, role, criticScore, isDummy, parentId, outputNumber) ==
  LET i == QueryMessage(ms, id) IN
  IF i # 0
    THEN IF criticScore # Undefined
           THEN [ms EXCEPT ![i].badges = SetBadge(@, ToString10(criticScore))]
           ELSE ms
    ELSE Append(ms, Bubble(id, text, role, isDummy,
                           IF role = "assistant" /\ criticScore # Undefined
                             THEN <<ToString10(criticScore)>> ELSE <<>>,
                           parentId, outputNumber))

\* A purge that removes nothing.
removePlaceholders_Nothing(ms) == ms

\* A purge whose second selector takes every .assistant-message.
removePlaceholders_AllAssistants(ms) ==
  LET Keep1(e) == ~e.dummy
      Keep2(e) == e.cls # "assistant-message"
  IN SelectSeq(SelectSeq(ms, Keep1), Keep2)

\* removePlaceholders(): every .dummy-message, then every .assistant-message
\* without a data-message-id, is removed.
removePlaceholders(ms) ==
  LET Keep1(e) == ~e.dummy
      Keep2(e) == ~(e.cls = "assistant-message" /\ ~HasMessageId(e))
  IN SelectSeq(SelectSeq(ms, Keep1), Keep2)

\* updateCriticBadge(messageId, score)
updateCriticBadge(ms, messageId, score) ==
  LET i == QueryMessage(ms, messageId) IN
  IF i = 0 THEN ms
  ELSE [ms EXCEPT ![i].badges = SetBadge(@, ToFixed1(score))]

\* ------------------------------------------------------- the status panel
\* A write that reaches every processing-steps element there is.
SetInnerHTML_EveryPanel(panels, t, html) ==
  [u \in DOMAIN panels |-> IF u = t \/ panels[u].status # "none" THEN html ELSE panels[u]]

\* `stepsContainer.innerHTML = ...` in the loops of turn t: stepsContainer is the
\* element startStatusPolling created for this turn, held by the closure.
SetInnerHTML(panels, t, html) == [panels EXCEPT ![t] = html]

\* What a processing-steps element shows: the status line, whether the
\* processing-data layout is used, the field sections, and the critique
\* blocks appended after them.
NoPanel == [status |-> "none", data |-> FALSE, fields |-> {}, critique |-> 0]
InitialPanel == [status |-> "Initializing...", data |-> FALSE, fields |-> {}, critique |-> 0]

\* The sections updateProcessingStepsDisplay builds from processing_data:
\* one `if (data.x)` per field.
FieldSections(data) ==
  (IF "ner_results" \in data THEN {"ner_results"} ELSE {}) \cup
  (IF "search_call" \in data THEN {"search_call"} ELSE {}) \cup
  (IF "search_results" \in data THEN {"search_results"} ELSE {}) \cup
  (IF "thinking" \in data THEN {"thinking"} ELSE {})

\* updateProcessingStepsDisplay(statusData, container): container.innerHTML is
\* replaced by the rendering of this one snapshot.
updateProcessingStepsDisplay(statusData, container) ==
  IF ~statusData.processing_data.present
    THEN [status |-> statusData.status, data |-> FALSE, fields |-> {}, critique |-> 0]
    ELSE [status |-> statusData.status, data |-> TRUE,
          fields |-> FieldSections(statusData.processing_data.fields),
          critique |-> 0]

\* displayCritiqueInSteps(searchData, stepsContainer, messageId): innerHTML += html,
\* html holding a block when searchData has critique or regenerated_content.
displayCritiqueInSteps(searchData, container) ==
  IF searchData.critique \/ searchData.regenerated_content
    THEN [container EXCEPT !.critique = @ + 1]
    ELSE container

\* ------------------------------------------------------- backend answers
RemoveAt(s, i) == SubSeq(s, 1, i - 1) \o SubSeq(s, i + 1, Len(s))

\* processing_data of a status response: absent, or an object holding the
\* fields of the pipeline stages reported: entity extraction only, or all four.
ProcessingDataValues ==
  { [present |-> FALSE, fields |-> {}],
    [present |-> TRUE, fields |-> {"ner_results"}],
    [present |-> TRUE, fields |-> Fields] }

\* The bodies GET /assistant/chat/status/{message_id} may answer with when the
\* pipeline of turn t stood at status st.  critic_score is read only together
\* with content, so it is varied only there.
StatusData(t, st) ==
  { [ status |-> st, message_id |-> MessageId(t), content |-> NoContent,
      critic_score |-> Undefined, processing_data |-> pd ] :
      pd \in ProcessingDataValues } \cup
  { [ status |-> st, message_id |-> MessageId(t), content |-> Content(t),
      critic_score |-> sc, processing_data |-> pd ] :
      sc \in {Undefined} \cup Scores, pd \in ProcessingDataValues }

\* search_output of a message-detail response: absent, text that is not JSON,
\* or JSON with or without critique / regenerated_content.
SearchOutputs ==
  { [present |-> FALSE, wellformed |-> FALSE, critique |-> FALSE, regenerated_content |-> FALSE],
    [present |-> TRUE, wellformed |-> FALSE, critique |-> FALSE, regenerated_content |-> FALSE] } \cup
  { [present |-> TRUE, wellformed |-> TRUE, critique |-> c, regenerated_content |-> r] :
      c \in BOOLEAN, r \in BOOLEAN }

\* The bodies GET /assistant/chat/message/{message_id} may answer with.
MessageDetail(t) ==
  { [ id |-> MessageId(t), critic_score |-> sc, search_output |-> so ] :
      sc \in {Undefined} \cup Scores, so \in SearchOutputs }

\* ------------------------------------------------------------------- Init
\* The state after the script has run, for a run that explores `lim`.
Start(lim) ==
  /\ currentChatId = NULL
  /\ messages = <<>>
  /\ phase = [t \in Turns |-> "idle"]
  /\ srvStatus = [t \in Turns |-> ""]
  /\ pollInterval = [t \in Turns |-> FALSE]
  /\ pollCeiling = [t \in Turns |-> FALSE]
  /\ lastStatus = [t \in Turns |-> ""]
  /\ finalResponseShown = [t \in Turns |-> FALSE]
  /\ inflight = [t \in Turns |-> <<>>]
  /\ stepsContainer = [t \in Turns |-> NoPanel]
  /\ criticInterval = [t \in Turns |-> FALSE]
  /\ criticCeiling = [t \in Turns |-> FALSE]
  /\ criticShown = [t \in Turns |-> FALSE]
  /\ criticInflight = [t \in Turns |-> 0]
  /\ requests = 0
  /\ seen = [t \in Turns |-> {}]
  /\ ordered = [t \in Turns |-> TRUE]
  /\ renders = [t \in Turns |-> 0]
  /\ bubbles = [t \in Turns |-> 0]
  /\ handled = [t \in Turns |-> 0]
  /\ finalsSeen = [t \in Turns |-> {}]
  /\ criticStarts = [t \in Turns |-> 0]
  /\ purges = [t \in Turns |-> 0]
  /\ limits = lim
  /\ scoreInflight = 0
  /\ detailInflight = [t \in Turns |-> <<>>]
  /\ epoch = 0
  /\ critiqueDisplays = [t \in Turns |-> 0]
  /\ changes = [t \in Turns |-> 0]
  /\ writers = [t \in Turns |-> {}]
  /\ parseFailed = [t \in Turns |-> FALSE]
  /\ preferInflight = <<>>
  /\ sentInEpoch = [t \in Turns |-> 0]
  /\ startPending = TRUE

Init == Start([requests |-> MaxRequests, submitted |-> Submitted, statuses |-> ServerStatuses,
               chats |-> ChatIds, inflight |-> MaxInflight])

statusVars == << srvStatus, pollInterval, pollCeiling, lastStatus, finalResponseShown,
                 inflight >>
criticVars == << criticInterval, criticCeiling, criticShown, criticInflight >>
histVars == << seen, ordered, renders, bubbles, handled, finalsSeen >>
scoreVars == << scoreInflight, detailInflight, epoch, critiqueDisplays, changes, writers,
               parseFailed, preferInflight,
                  sentInEpoch, startPending >>

\* ------------------------------------------------------------- submission
\* handleSend(): the two placeholders, then sendToServer in one second.
HandleSend(t) ==
  /\ phase[t] = "idle"
  /\ messages' =
       addMessageToChat(
         addMessageToChat(messages, TempUserId, UserInput(t), "user", Undefined, TRUE,
                          NoParent, NoOutput),
         TempAssistantId, TypingText, "assistant", Undefined, TRUE, NoParent, NoOutput)
  /\ phase' = [phase EXCEPT ![t] = "typed"]
  /\ UNCHANGED << currentChatId, requests, stepsContainer, statusVars, criticVars, histVars, criticStarts, purges, limits, scoreVars >>

\* sendToServer(userInput) up to its fetch: two more placeholders, request sent.
SendToServer(t) ==
  /\ phase[t] = "typed"
  /\ t \in limits.submitted
  /\ messages' =
       addMessageToChat(
         addMessageToChat(messages, TempUserTsId(t), UserInput(t), "user", Undefined, TRUE,
                          NoParent, NoOutput),
         TempAssistantTsId(t), ThinkingText, "assistant", Undefined, TRUE, NoParent, NoOutput)
  /\ phase' = [phase EXCEPT ![t] = "sending"]
  /\ sentInEpoch' = [sentInEpoch EXCEPT ![t] = epoch]
  /\ UNCHANGED << currentChatId, requests, stepsContainer, statusVars, criticVars, histVars,
                  criticStarts, purges, limits, scoreInflight, detailInflight, epoch,
                  critiqueDisplays, changes, writers, parseFailed, preferInflight,
                  startPending >>

\* A failure path that forgets the chat.
ChatIdAfterFailure_Cleared(current) == NULL

\* currentChatId after a failed submission: neither failure path assigns it.
ChatIdAfterFailure(current) == current

\* A success path that does not store the returned chat id.
ChatIdAfterSubmit_Keeps(current, chat_id) == current

\* `if (data.chat_id) { currentChatId = data.chat_id; ... }`
ChatIdAfterSubmit(current, chat_id) == chat_id

\* The response carries `error`.
SubmitError(t) ==
  /\ phase[t] = "sending"
  /\ currentChatId' = ChatIdAfterFailure(currentChatId)
  /\ messages' = addMessageToChat(removePlaceholders(messages), ErrorId,
                                  SubmitErrorText(t), "assistant", Undefined, FALSE, NoParent, NoOutput)
  /\ phase' = [phase EXCEPT ![t] = "failed"]
  /\ UNCHANGED << requests, stepsContainer, statusVars, criticVars, histVars, criticStarts, limits, scoreVars >>
  /\ purges' = [purges EXCEPT ![t] = @ + 1]

\* fetch rejects or the body is not JSON: the catch block.
SubmitThrows(t) ==
  /\ phase[t] = "sending"
  /\ currentChatId' = ChatIdAfterFailure(currentChatId)
  /\ messages' = addMessageToChat(removePlaceholders(messages), ErrorId,
                                  TransportErrorText, "assistant", Undefined, FALSE, NoParent, NoOutput)
  /\ phase' = [phase EXCEPT ![t] = "failed"]
  /\ UNCHANGED << requests, stepsContainer, statusVars, criticVars, histVars, criticStarts, limits, scoreVars >>
  /\ purges' = [purges EXCEPT ![t] = @ + 1]

\* The response is {chat_id, user_message, message_id}: the chat id is stored,
\* the placeholders go, the user message is shown and startStatusPolling runs
\* (steps element appended, closure variables initialised, both timers armed).
SubmitOk(t, chat_id) ==
  /\ phase[t] = "sending"
  /\ chat_id \in limits.chats
  /\ currentChatId' = ChatIdAfterSubmit(currentChatId, chat_id)
  /\ messages' =
       Append(addMessageToChat(removePlaceholders(messages), UserMsgId(t),
                               UserContent(t), "user", Undefined, FALSE, NoParent, NoOutput),
              StepsElement(t))
  /\ phase' = [phase EXCEPT ![t] = "polling"]
  /\ stepsContainer' = SetInnerHTML(stepsContainer, t, InitialPanel)
  /\ lastStatus' = [lastStatus EXCEPT ![t] = ""]
  /\ finalResponseShown' = [finalResponseShown EXCEPT ![t] = FALSE]
  /\ pollInterval' = [pollInterval EXCEPT ![t] = TRUE]
  /\ pollCeiling' = [pollCeiling EXCEPT ![t] = TRUE]
  /\ srvStatus' = [srvStatus EXCEPT ![t] = StatusOrder[1]]
  /\ UNCHANGED << inflight, requests, criticVars, histVars, criticStarts, limits, scoreVars >>
  /\ purges' = [purges EXCEPT ![t] = @ + 1]

\* The backend's pipeline moves on (skips allowed, never backwards).
ServerAdvance(t, st) ==
  /\ phase[t] = "polling"
  /\ st \in limits.statuses
  /\ Rank(st) > Rank(srvStatus[t])
  /\ srvStatus' = [srvStatus EXCEPT ![t] = st]
  /\ UNCHANGED << currentChatId, messages, phase, requests, stepsContainer, pollInterval,
                  pollCeiling, lastStatus, finalResponseShown, inflight, criticVars,
                  histVars, criticStarts, purges, limits, scoreVars >>

\* ---------------------------------------------------------- status loop
\* A render condition that ignores the last rendered status.
StatusChanged_Always(status, last) == TRUE

\* A render condition that leaves the panel alone on a final status.
StatusChanged_NotFinal(status, last) ==
  (status # last \/ last = "") /\ ~IsFinalStatus(status)

\* `statusData.status !== lastStatus || !lastStatus`
StatusChanged(status, last) == status # last \/ last = ""

\* A final-response condition that does not look at the content.
ShowsFinalResponse_IgnoresContent(statusData, shown) ==
  /\ IsFinalStatus(statusData.status)
  /\ ~shown

\* A final-response condition that does not look at finalResponseShown.
ShowsFinalResponse_IgnoresShown(statusData, shown) ==
  /\ IsFinalStatus(statusData.status)
  /\ statusData.content # NoContent

\* The condition under which the interval callback shows the final response:
\* a final status, nothing shown yet, and content that is not empty.
ShowsFinalResponse(statusData, shown) ==
  /\ IsFinalStatus(statusData.status)
  /\ ~shown
  /\ statusData.content # NoContent

\* Handlers that leave the interval running where the code clears it.
PollIntervalAfterNotOk_Live(live) == live
PollIntervalAfterFinal_Live(live) == live
PollIntervalAfterCeiling_Live(live) == live

\* What is left of the status interval after `if (!response.ok)`:
\* clearInterval(pollInterval).
PollIntervalAfterNotOk(live) == FALSE

\* What is left of the status interval after the catch block: it only logs.
PollIntervalAfterThrow(live) == live

\* What is left of the status interval after the final response was shown:
\* clearInterval(pollInterval).
PollIntervalAfterFinal(live) == FALSE

\* What is left of the status interval when the 180 s timeout fires.
PollIntervalAfterCeiling(live) == FALSE

\* One tick of the 700 ms interval: the callback starts and awaits its fetch.
\* The answer will report the pipeline as it stands now.
PollTick(t) ==
  /\ pollInterval[t]
  /\ requests < limits.requests
  /\ Len(inflight[t]) < limits.inflight
  /\ inflight' = [inflight EXCEPT ![t] = Append(@, srvStatus[t])]
  /\ requests' = requests + 1
  /\ UNCHANGED << currentChatId, messages, phase, stepsContainer, srvStatus, pollInterval,
                  pollCeiling, lastStatus, finalResponseShown, criticVars, histVars, criticStarts, purges, limits, scoreVars >>

\* The i-th pending status request is answered with a non-success HTTP status.
PollNotOk(t, i) ==
  /\ i \in 1..Len(inflight[t])
  /\ inflight' = [inflight EXCEPT ![t] = RemoveAt(@, i)]
  /\ pollInterval' = [pollInterval EXCEPT ![t] = PollIntervalAfterNotOk(@)]
  /\ UNCHANGED << currentChatId, messages, phase, requests, stepsContainer, srvStatus,
                  pollCeiling, lastStatus, finalResponseShown, criticVars, histVars, criticStarts, purges, limits, scoreVars >>

\* fetch of the i-th pending status request rejects (transport failure), or
\* response.json() throws: the catch block.
PollThrows(t, i) ==
  /\ i \in 1..Len(inflight[t])
  /\ inflight' = [inflight EXCEPT ![t] = RemoveAt(@, i)]
  /\ pollInterval' = [pollInterval EXCEPT ![t] = PollIntervalAfterThrow(@)]
  /\ UNCHANGED << currentChatId, messages, phase, requests, stepsContainer, srvStatus,
                  pollCeiling, lastStatus, finalResponseShown, criticVars, histVars, criticStarts, purges, limits, scoreVars >>

\* The i-th pending status request is answered with statusData: the panel is
\* rendered when the status changed; on a final status with content the
\* placeholders go, the assistant message is added, the interval is cleared
\* and startCriticPolling runs (criticShown = false, both critic timers armed).
PollOk(t, i, statusData) ==
  /\ i \in 1..Len(inflight[t])
  /\ statusData \in StatusData(t, inflight[t][i])
  /\ inflight' = [inflight EXCEPT ![t] = RemoveAt(@, i)]
  /\ seen' = [seen EXCEPT ![t] = @ \cup {statusData.status}]
  /\ handled' = [handled EXCEPT ![t] = @ + 1]
  /\ finalsSeen' = [finalsSeen EXCEPT ![t] =
                      IF ~IsFinalStatus(statusData.status) THEN @
                      ELSE IF statusData.content = NoContent THEN @ \cup {"empty"}
                      ELSE @ \cup {"content"}]
  /\ ordered' = [ordered EXCEPT ![t] =
                   @ /\ \A s \in seen[t] : Rank(s) <= Rank(statusData.status)]
  /\ IF StatusChanged(statusData.status, lastStatus[t])
       THEN /\ stepsContainer' =
                 SetInnerHTML(stepsContainer, t,
                              updateProcessingStepsDisplay(statusData, stepsContainer[t]))
            /\ lastStatus' = [lastStatus EXCEPT ![t] = statusData.status]
            /\ renders' = [renders EXCEPT ![t] = @ + 1]
       ELSE UNCHANGED << stepsContainer, lastStatus, renders >>
  /\ IF ShowsFinalResponse(statusData, finalResponseShown[t])
       THEN LET purged == removePlaceholders(messages)
                added == addMessageToChat(purged, statusData.message_id,
                                          statusData.content, "assistant",
                                          statusData.critic_score, FALSE, NoParent, NoOutput)
            IN /\ messages' = added
               /\ bubbles' = [bubbles EXCEPT ![t] =
                                IF Len(added) > Len(purged) THEN @ + 1 ELSE @]
               /\ finalResponseShown' = [finalResponseShown EXCEPT ![t] = TRUE]
               /\ pollInterval' = [pollInterval EXCEPT ![t] = PollIntervalAfterFinal(@)]
               /\ criticShown' = [criticShown EXCEPT ![t] = FALSE]
               /\ criticInterval' = [criticInterval EXCEPT ![t] = TRUE]
               /\ criticCeiling' = [criticCeiling EXCEPT ![t] = TRUE]
               /\ criticStarts' = [criticStarts EXCEPT ![t] = @ + 1]
               /\ purges' = [purges EXCEPT ![t] = @ + 1]
               /\ writers' = [writers EXCEPT ![t] =
                                IF statusData.critic_score # Undefined
                                  THEN @ \cup {"addMessageToChat"} ELSE @]
       ELSE UNCHANGED << messages, bubbles, finalResponseShown, pollInterval,
                         criticShown, criticInterval, criticCeiling, criticStarts,
                         purges, writers >>
  /\ UNCHANGED << currentChatId, phase, requests, srvStatus, pollCeiling, criticInflight,
                  limits, scoreInflight, detailInflight, epoch, critiqueDisplays, changes,
                  parseFailed, preferInflight,
                  sentInEpoch, startPending >>

\* The 180 s timeout fires: clearInterval(pollInterval).
PollCeiling(t) ==
  /\ pollCeiling[t]
  /\ pollCeiling' = [pollCeiling EXCEPT ![t] = FALSE]
  /\ pollInterval' = [pollInterval EXCEPT ![t] = PollIntervalAfterCeiling(@)]
  /\ UNCHANGED << currentChatId, messages, phase, requests, stepsContainer, srvStatus,
                  lastStatus, finalResponseShown, inflight, criticVars, histVars, criticStarts, purges, limits, scoreVars >>

\* ---------------------------------------------------------- critic loop
\* What is left of the critic interval after `if (!response.ok)`:
\* clearInterval(criticInterval).
CriticIntervalAfterNotOk(live) == FALSE

\* What is left of the critic interval after the outer catch block: it only logs.
CriticIntervalAfterThrow(live) == live

\* An inner catch block that gives the loop up.
CriticIntervalAfterParseError_Cleared(live) == FALSE

\* What is left of the critic interval after the inner catch block (JSON.parse
\* threw): it only logs.
CriticIntervalAfterParseError(live) == live

\* A ceiling timeout that leaves the interval running.
CriticIntervalAfterCeiling_Live(live) == live

\* What is left of the critic interval after the 120 s timeout.
CriticIntervalAfterCeiling(live) == FALSE

\* A gate that ignores criticShown.
ShowsCritique_IgnoresShown(searchData, shown) ==
  searchData.critique \/ searchData.regenerated_content

\* `(searchData.critique || searchData.regenerated_content) && !criticShown`
ShowsCritique(searchData, shown) ==
  (searchData.critique \/ searchData.regenerated_content) /\ ~shown

\* One tick of the 2 s interval: the callback starts and awaits its fetch.
CriticTick(t) ==
  /\ criticInterval[t]
  /\ requests < limits.requests
  /\ criticInflight[t] < limits.inflight
  /\ criticInflight' = [criticInflight EXCEPT ![t] = @ + 1]
  /\ requests' = requests + 1
  /\ UNCHANGED << currentChatId, messages, phase, stepsContainer, statusVars,
                  criticInterval, criticCeiling, criticShown, histVars, criticStarts, purges, limits, scoreVars >>

\* A pending message-detail request is answered with a non-success HTTP status.
CriticNotOk(t) ==
  /\ criticInflight[t] > 0
  /\ criticInflight' = [criticInflight EXCEPT ![t] = @ - 1]
  /\ criticInterval' = [criticInterval EXCEPT ![t] = CriticIntervalAfterNotOk(@)]
  /\ UNCHANGED << currentChatId, messages, phase, requests, stepsContainer, statusVars,
                  criticCeiling, criticShown, histVars, criticStarts, purges, limits, scoreVars >>

\* fetch of a pending message-detail request rejects (transport failure), or
\* response.json() throws: the outer catch block.
CriticThrows(t) ==
  /\ criticInflight[t] > 0
  /\ criticInflight' = [criticInflight EXCEPT ![t] = @ - 1]
  /\ criticInterval' = [criticInterval EXCEPT ![t] = CriticIntervalAfterThrow(@)]
  /\ UNCHANGED << currentChatId, messages, phase, requests, stepsContainer, statusVars,
                  criticCeiling, criticShown, histVars, criticStarts, purges, limits, scoreVars >>

\* A pending message-detail request is answered with msgData.
CriticOk(t, msgData) ==
  /\ criticInflight[t] > 0
  /\ msgData \in MessageDetail(t)
  /\ criticInflight' = [criticInflight EXCEPT ![t] = @ - 1]
  /\ parseFailed' = [parseFailed EXCEPT ![t] =
                       @ \/ ( /\ msgData.search_output.present
                              /\ ~msgData.search_output.wellformed
                              /\ criticInterval[t] /\ ~criticShown[t] )]
  /\ IF ~msgData.search_output.present
       THEN \* `return` on no search_output
            UNCHANGED << messages, stepsContainer, criticShown, criticInterval,
                         critiqueDisplays, writers >>
       ELSE IF ~msgData.search_output.wellformed
       THEN \* JSON.parse throws into the inner catch
            /\ criticInterval' = [criticInterval EXCEPT ![t] = CriticIntervalAfterParseError(@)]
            /\ UNCHANGED << messages, stepsContainer, criticShown, critiqueDisplays, writers >>
       ELSE /\ IF ShowsCritique(msgData.search_output, criticShown[t])
                 THEN /\ stepsContainer' =
                           SetInnerHTML(stepsContainer, t,
                                        displayCritiqueInSteps(msgData.search_output,
                                                               stepsContainer[t]))
                      /\ criticShown' = [criticShown EXCEPT ![t] = TRUE]
                      /\ criticInterval' = [criticInterval EXCEPT ![t] = FALSE]
                      /\ critiqueDisplays' = [critiqueDisplays EXCEPT ![t] = @ + 1]
                 ELSE UNCHANGED << stepsContainer, criticShown, criticInterval,
                                   critiqueDisplays >>
            /\ IF msgData.critic_score # Undefined
                 THEN /\ messages' = updateCriticBadge(messages, msgData.id, msgData.critic_score)
                      /\ writers' = [writers EXCEPT ![t] =
                                       IF QueryMessage(messages, msgData.id) # 0
                                         THEN @ \cup {"updateCriticBadge"} ELSE @]
                 ELSE UNCHANGED << messages, writers >>
  /\ UNCHANGED << currentChatId, phase, requests, statusVars, criticCeiling, histVars,
                  criticStarts, purges, limits, scoreInflight, detailInflight, epoch,
                  changes, preferInflight,
                  sentInEpoch, startPending >>

\* The 120 s timeout fires: clearInterval(criticInterval).
CriticCeiling(t) ==
  /\ criticCeiling[t]
  /\ criticCeiling' = [criticCeiling EXCEPT ![t] = FALSE]
  /\ criticInterval' = [criticInterval EXCEPT ![t] = CriticIntervalAfterCeiling(@)]
  /\ UNCHANGED << currentChatId, messages, phase, requests, stepsContainer, statusVars,
                  criticInflight, criticShown, histVars, criticStarts, purges, limits, scoreVars >>

\* ------------------------------------------- background score refresher
\* JSON null for critic_score: the message has no score yet.
NullScore == <<>>

\* textContent of a .critic-score node that was created and not yet written.
EmptyText == <<>>

\* Scores the bulk score endpoint reports: the one the other endpoints report,
\* and a fractional one.
RefreshScores == Scores \cup { <<9, 5>> }

\* The bodies POST /assistant/chat/score/{chat_id} may answer with: no `scores`,
\* an empty list, or one entry for the assistant message of a turn.
ScoresData ==
  { [present |-> FALSE, scores |-> <<>>], [present |-> TRUE, scores |-> <<>>] } \cup
  { [present |-> TRUE, scores |-> << [id |-> MessageId(t), critic_score |-> sc] >>] :
      t \in Turns, sc \in {NullScore} \cup RefreshScores }

\* The element displayCritiqueAndRegeneration appends to #messages.
CritiqueContainer ==
  [ cls |-> "critique-container", id |-> <<"critique-container">>,
    text |-> <<>>, dummy |-> FALSE, badges |-> <<>>, displayed |-> FALSE,
    parent |-> NoParent, output |-> NoOutput, hidden |-> FALSE ]

\* displayCritiqueAndRegeneration(message): nothing without search_output, on
\* text that is not JSON, or without critique and regenerated_content.
displayCritiqueAndRegeneration(ms, message) ==
  IF /\ message.search_output.present
     /\ message.search_output.wellformed
     /\ (message.search_output.critique \/ message.search_output.regenerated_content)
    THEN Append(ms, CritiqueContainer)
    ELSE ms

\* `scoreObj.critic_score !== null &&
\*  criticCircle.textContent !== scoreObj.critic_score.toString()`
ScoreChanged(text, score) == score # NullScore /\ text # ToString10(score)

\* `!displayedCritique && scoreObj.id`: the gate as pollCriticScores reads it.
CritiqueGateOpen(element) == ~element.displayed

\* The body of the forEach callback of pollCriticScores for one scoreObj.
\* acc.ms is the surface, acc.changed the ids whose delivery was treated as a
\* change, acc.fetched the ids for which a message-detail fetch was started.
RefreshEntry(acc, scoreObj) ==
  LET i == QueryMessage(acc.ms, scoreObj.id) IN
  IF i = 0 THEN acc
  ELSE LET ms1 == [acc.ms EXCEPT ![i].badges = IF Len(@) = 0 THEN <<EmptyText>> ELSE @]
       IN IF ScoreChanged(ms1[i].badges[1], scoreObj.critic_score)
            THEN [ ms |-> [ms1 EXCEPT ![i].badges[1] = ToString10(scoreObj.critic_score)],
                   changed |-> Append(acc.changed, scoreObj.id),
                   fetched |-> IF CritiqueGateOpen(ms1[i])
                                 THEN Append(acc.fetched, scoreObj.id)
                                 ELSE acc.fetched ]
            ELSE [acc EXCEPT !.ms = ms1]

\* data.scores.forEach(...)
RECURSIVE RefreshEntries(_, _)
RefreshEntries(acc, scores) ==
  IF scores = <<>> THEN acc
  ELSE RefreshEntries(RefreshEntry(acc, Head(scores)), Tail(scores))

Count(seq, x) == Cardinality({ k \in 1..Len(seq) : seq[k] = x })

\* One tick of the 5 s interval: pollCriticScores runs up to its fetch.
ScoresTick ==
  /\ currentChatId # NULL
  /\ requests < limits.requests
  /\ scoreInflight < limits.inflight
  /\ scoreInflight' = scoreInflight + 1
  /\ requests' = requests + 1
  /\ UNCHANGED << currentChatId, messages, phase, stepsContainer, statusVars, criticVars,
                  histVars, criticStarts, purges, limits, detailInflight, epoch,
                  critiqueDisplays, changes, writers, parseFailed, preferInflight,
                  sentInEpoch, startPending >>

\* fetch of a pending bulk score request rejects, or the body is not JSON: the
\* catch block.
ScoresThrows ==
  /\ scoreInflight > 0
  /\ scoreInflight' = scoreInflight - 1
  /\ UNCHANGED << currentChatId, messages, phase, requests, stepsContainer, statusVars,
                  criticVars, histVars, criticStarts, purges, limits, detailInflight,
                  epoch, critiqueDisplays, changes, writers, parseFailed, preferInflight,
                  sentInEpoch, startPending >>

\* A pending bulk score request is answered with data.
ScoresOk(data) ==
  /\ scoreInflight > 0
  /\ data \in ScoresData
  /\ scoreInflight' = scoreInflight - 1
  /\ LET r == IF data.present
                THEN RefreshEntries([ms |-> messages, changed |-> <<>>, fetched |-> <<>>],
                                    data.scores)
                ELSE [ms |-> messages, changed |-> <<>>, fetched |-> <<>>]
     IN /\ messages' = r.ms
        /\ changes' = [t \in Turns |-> changes[t] + Count(r.changed, MessageId(t))]
        /\ writers' = [t \in Turns |->
                         IF Count(r.changed, MessageId(t)) > 0
                           THEN writers[t] \cup {"pollCriticScores"} ELSE writers[t]]
        /\ detailInflight' =
             [t \in Turns |->
                detailInflight[t] \o [k \in 1..Count(r.fetched, MessageId(t)) |-> epoch]]
  /\ UNCHANGED << currentChatId, phase, requests, stepsContainer, statusVars, criticVars,
                  histVars, criticStarts, purges, limits, epoch, critiqueDisplays,
                  parseFailed, preferInflight,
                  sentInEpoch, startPending >>

\* The i-th pending message-detail request of pollCriticScores for the message
\* of turn t is answered with msgData: on a search_output the critique is
\* displayed and the gate is set on the element looked up before the fetch.
DetailOk(t, i, msgData) ==
  /\ i \in 1..Len(detailInflight[t])
  /\ msgData \in MessageDetail(t)
  /\ detailInflight' = [detailInflight EXCEPT ![t] = RemoveAt(@, i)]
  /\ IF msgData.search_output.present
       THEN LET shown == displayCritiqueAndRegeneration(messages, msgData)
                k == QueryMessage(shown, msgData.id)
            IN /\ messages' = IF detailInflight[t][i] = epoch /\ k # 0
                                THEN [shown EXCEPT ![k].displayed = TRUE]
                                ELSE shown
               /\ critiqueDisplays' = [critiqueDisplays EXCEPT ![t] =
                                         IF Len(shown) > Len(messages) THEN @ + 1 ELSE @]
       ELSE UNCHANGED << messages, critiqueDisplays >>
  /\ UNCHANGED << currentChatId, phase, requests, stepsContainer, statusVars, criticVars,
                  histVars, criticStarts, purges, limits, scoreInflight, epoch, changes,
                  writers, parseFailed, preferInflight,
                  sentInEpoch, startPending >>

\* The i-th pending message-detail request of pollCriticScores fails: `.catch`.
DetailThrows(t, i) ==
  /\ i \in 1..Len(detailInflight[t])
  /\ detailInflight' = [detailInflight EXCEPT ![t] = RemoveAt(@, i)]
  /\ UNCHANGED << currentChatId, messages, phase, requests, stepsContainer, statusVars,
                  criticVars, histVars, criticStarts, purges, limits, scoreInflight,
                  epoch, critiqueDisplays, changes, writers, parseFailed, preferInflight,
                  sentInEpoch, startPending >>

\* --------------------------------------------------------- session reset
SystemRefreshId == <<"system-refresh">>
SessionRefreshedText == <<"Session refreshed.">>

\* refreshSession(): the chat id is dropped, the surface is emptied and the
\* notice is added.  Timers and pending requests are left as they are.
RefreshSession ==
  /\ epoch < MaxRefreshes
  /\ currentChatId' = NULL
  /\ messages' = addMessageToChat(<<>>, SystemRefreshId, SessionRefreshedText,
                                  "assistant", Undefined, FALSE, NoParent, NoOutput)
  /\ epoch' = epoch + 1
  /\ UNCHANGED << phase, requests, stepsContainer, statusVars, criticVars, histVars,
                  criticStarts, purges, limits, scoreInflight, detailInflight,
                  critiqueDisplays, changes, writers, parseFailed, preferInflight,
                  sentInEpoch, startPending >>

\* ------------------------------------------------------------------- Next
Next ==
  \E t \in Turns :
    \/ HandleSend(t)
    \/ SendToServer(t)
    \/ SubmitError(t)
    \/ SubmitThrows(t)
    \/ \E c \in SessionChatIds : SubmitOk(t, c)
    \/ \E st \in Statuses : ServerAdvance(t, st)
    \/ PollTick(t)
    \/ \E i \in 1..Len(inflight[t]) : PollNotOk(t, i)
    \/ \E i \in 1..Len(inflight[t]) : PollThrows(t, i)
    \/ \E i \in 1..Len(inflight[t]) : \E d \in StatusData(t, inflight[t][i]) : PollOk(t, i, d)
    \/ PollCeiling(t)
    \/ CriticTick(t)
    \/ CriticNotOk(t)
    \/ CriticThrows(t)
    \/ \E d \in MessageDetail(t) : CriticOk(t, d)
    \/ CriticCeiling(t)

Spec == Init /\ [][Next]_vars

\* The same run with the event loop delivering every armed setTimeout: the
\* 180 s and 120 s timeouts of a loop fire once they are armed.  Nothing is
\* assumed about interval ticks, responses or the backend.
FairSpec ==
  /\ Spec
  /\ \A t \in Turns : WF_vars(PollCeiling(t)) /\ WF_vars(CriticCeiling(t))

\* ------------------------------------------------------ output preference
\* Prefer requests awaiting their response at one time.
MaxPrefers == 2

\* The output numbers of dual-output mode.
OutputNumbers == {1, 2}

\* The two outputs shown for the user message of turn t.
OutputId(t, k) == <<"output-", t, k>>
OutputText(t, k) == <<"output ", k, " for ", t>>

\* A sibling computation that names the preferred output itself.
OtherOutputNumber_Same(outputNumber) == outputNumber

\* `outputNumber === 1 ? 2 : 1`
OtherOutputNumber(outputNumber) == IF outputNumber = 1 THEN 2 ELSE 1

\* document.querySelector(`[data-parent-id='..'][data-output-number='..']`):
\* the index of the first such element, 0 when there is none.
QuerySibling(ms, parentMessageId, outputNumber) ==
  IF \E i \in 1..Len(ms) : ms[i].parent = parentMessageId /\ ms[i].output = outputNumber
    THEN CHOOSE i \in 1..Len(ms) :
           /\ ms[i].parent = parentMessageId /\ ms[i].output = outputNumber
           /\ \A j \in 1..(i-1) :
                ~(ms[j].parent = parentMessageId /\ ms[j].output = outputNumber)
    ELSE 0

\* A preferOutput that sends its request without a chat.
PreferSends_Always(chat) == TRUE

\* `if (!currentChatId) { ...; return; }`: the request is sent only with a chat.
PreferSends(chat) == chat # NULL

\* What the output-preference actions leave alone.
preferFrame ==
  << phase, requests, stepsContainer, statusVars, criticVars, histVars, criticStarts,
     purges, limits, scoreInflight, detailInflight, critiqueDisplays, changes, writers,
     parseFailed, sentInEpoch, startPending >>

\* preferFrame without startPending.
startFrame ==
  << phase, requests, stepsContainer, statusVars, criticVars, histVars, criticStarts,
     purges, limits, scoreInflight, detailInflight, critiqueDisplays, changes, writers,
     parseFailed, sentInEpoch >>

\* The response to startNewChat() (run on DOMContentLoaded) arrives with a
\* chat_id: `if (data.chat_id) { currentChatId = data.chat_id; ... }`.
StartNewChat(chat_id) ==
  /\ startPending
  /\ startPending' = FALSE
  /\ currentChatId' = chat_id
  /\ UNCHANGED << messages, preferInflight, epoch, startFrame >>

\* Output k for the user message of turn t is rendered:
\* addMessageToChat(id, text, 'assistant', undefined, false, parentId, k).
AddOutput(t, k) ==
  /\ QueryMessage(messages, OutputId(t, k)) = 0
  /\ messages' = addMessageToChat(messages, OutputId(t, k), OutputText(t, k), "assistant",
                                  Undefined, FALSE, UserMsgId(t), k)
  /\ UNCHANGED << currentChatId, preferInflight, epoch, preferFrame >>

\* preferOutput(parentMessageId, outputNumber) up to its fetch: without a chat
\* it returns, otherwise the request is sent under the current chat id.
PreferOutput(parentMessageId, outputNumber) ==
  /\ Len(preferInflight) < MaxPrefers
  /\ preferInflight' =
       IF PreferSends(currentChatId)
         THEN Append(preferInflight, [chat |-> currentChatId, parent |-> parentMessageId,
                                      output |-> outputNumber])
         ELSE preferInflight
  /\ UNCHANGED << currentChatId, messages, epoch, preferFrame >>

\* The i-th pending prefer request is accepted: the first element with the
\* same parent and the other output number, if any, gets display 'none'.
PreferAccepted(i) ==
  /\ i \in 1..Len(preferInflight)
  /\ LET r == preferInflight[i]
         sibling == QuerySibling(messages, r.parent, OtherOutputNumber(r.output))
     IN messages' = IF sibling # 0 THEN [messages EXCEPT ![sibling].hidden = TRUE]
                                   ELSE messages
  /\ preferInflight' = RemoveAt(preferInflight, i)
  /\ UNCHANGED << currentChatId, epoch, preferFrame >>

\* The i-th pending prefer request is answered with `error`: logged, return.
PreferError(i) ==
  /\ i \in 1..Len(preferInflight)
  /\ preferInflight' = RemoveAt(preferInflight, i)
  /\ UNCHANGED << currentChatId, messages, epoch, preferFrame >>

\* fetch of the i-th pending prefer request rejects, or the body is not JSON:
\* the catch block logs.
PreferThrows(i) ==
  /\ i \in 1..Len(preferInflight)
  /\ preferInflight' = RemoveAt(preferInflight, i)
  /\ UNCHANGED << currentChatId, messages, epoch, preferFrame >>

\* Outputs are rendered, preferences are clicked and answered, and the session
\* may be refreshed in between.
PreferNext ==
  \/ \E c \in ChatIds : StartNewChat(c)
  \/ \E t \in Turns, k \in OutputNumbers : AddOutput(t, k)
  \/ \E t \in Turns, k \in OutputNumbers : PreferOutput(UserMsgId(t), k)
  \/ \E i \in 1..Len(preferInflight) : PreferAccepted(i)
  \/ \E i \in 1..Len(preferInflight) : PreferError(i)
  \/ \E i \in 1..Len(preferInflight) : PreferThrows(i)
  \/ RefreshSession

PreferSpec == Init /\ [][PreferNext]_vars

\* ----------------------------------------------- the five-status scenario
\* A run long enough for one status loop to handle five responses, one request
\* at a time, while the backend passes through the five statuses of the
\* scenario.
MaxScenarioRequests == 5
MaxScenarioInflight == 1

ScenarioStatuses ==
  {"processing_started", "ner_started", "search_started", "generating_response",
   "response_generated"}

ScenarioInit ==
  Start([requests |-> MaxScenarioRequests, submitted |-> Submitted,
         statuses |-> ScenarioStatuses, chats |-> ChatIds,
         inflight |-> MaxScenarioInflight])

ScenarioSpec == ScenarioInit /\ [][Next]_vars

\* ------------------------------------------------ the score-badge writers
\* The state right after the status loop of turn 1 showed its final response,
\* reached by handleSend, sendToServer, a successful submission and one status
\* request answered with `completed` and content (with or without a score):
\* the user message, the steps element and the assistant bubble are on the
\* surface and the critic loop has just been started.
ScoreInit ==
  \E d \in StatusData(1, "completed") :
    /\ d.content # NoContent /\ ~d.processing_data.present
    /\ currentChatId \in ChatIds
    /\ messages =
         addMessageToChat(
           Append(addMessageToChat(<<>>, UserMsgId(1), UserContent(1), "user",
                                   Undefined, FALSE, NoParent, NoOutput),
                  StepsElement(1)),
           d.message_id, d.content, "assistant", d.critic_score, FALSE, NoParent, NoOutput)
    /\ phase = [t \in Turns |-> IF t = 1 THEN "polling" ELSE "idle"]
    /\ srvStatus = [t \in Turns |-> IF t = 1 THEN "completed" ELSE ""]
    /\ pollInterval = [t \in Turns |-> FALSE]
    /\ pollCeiling = [t \in Turns |-> t = 1]
    /\ lastStatus = [t \in Turns |-> IF t = 1 THEN "completed" ELSE ""]
    /\ finalResponseShown = [t \in Turns |-> t = 1]
    /\ inflight = [t \in Turns |-> <<>>]
    /\ stepsContainer = [t \in Turns |->
                           IF t = 1 THEN updateProcessingStepsDisplay(d, InitialPanel)
                           ELSE NoPanel]
    /\ criticInterval = [t \in Turns |-> t = 1]
    /\ criticCeiling = [t \in Turns |-> t = 1]
    /\ criticShown = [t \in Turns |-> FALSE]
    /\ criticInflight = [t \in Turns |-> 0]
    /\ requests = 1
    /\ seen = [t \in Turns |-> IF t = 1 THEN {"completed"} ELSE {}]
    /\ ordered = [t \in Turns |-> TRUE]
    /\ renders = [t \in Turns |-> IF t = 1 THEN 1 ELSE 0]
    /\ bubbles = [t \in Turns |-> IF t = 1 THEN 1 ELSE 0]
    /\ handled = [t \in Turns |-> IF t = 1 THEN 1 ELSE 0]
    /\ finalsSeen = [t \in Turns |-> IF t = 1 THEN {"content"} ELSE {}]
    /\ criticStarts = [t \in Turns |-> IF t = 1 THEN 1 ELSE 0]
    /\ purges = [t \in Turns |-> IF t = 1 THEN 2 ELSE 0]
    /\ limits = [requests |-> MaxRequests + 1, submitted |-> Submitted,
                 statuses |-> ServerStatuses, chats |-> ChatIds, inflight |-> MaxInflight]
    /\ scoreInflight = 0
    /\ detailInflight = [t \in Turns |-> <<>>]
    /\ epoch = 0
    /\ critiqueDisplays = [t \in Turns |-> 0]
    /\ changes = [t \in Turns |-> 0]
    /\ writers = [t \in Turns |->
                    IF t = 1 /\ d.critic_score # Undefined
                      THEN {"addMessageToChat"} ELSE {}]
    /\ parseFailed = [t \in Turns |-> FALSE]
  /\ preferInflight = <<>>
  /\ sentInEpoch = [t \in Turns |-> 0]
  /\ startPending = TRUE

\* What runs from there: the critic loop, the background score refresher with
\* its message-detail fetches, and the refresh button.
ScoreNext ==
  \/ \E t \in Turns :
       \/ CriticTick(t)
       \/ CriticNotOk(t)
       \/ CriticThrows(t)
       \/ \E d \in MessageDetail(t) : CriticOk(t, d)
       \/ CriticCeiling(t)
       \/ \E i \in 1..Len(detailInflight[t]) : \E d \in MessageDetail(t) : DetailOk(t, i, d)
       \/ \E i \in 1..Len(detailInflight[t]) : DetailThrows(t, i)
  \/ ScoresTick
  \/ ScoresThrows
  \/ \E data \in ScoresData : ScoresOk(data)
  \/ RefreshSession

ScoreSpec == ScoreInit /\ [][ScoreNext]_vars

\* ------------------------------------------------- two concurrent turns
\* Both turns are submitted, and next to what follows from the submissions the
\* background score refresher and the refresh button are at work.
SessionInit ==
  Start([requests |-> MaxSessionRequests, submitted |-> Turns, statuses |-> SessionStatuses,
         chats |-> SessionChatIds, inflight |-> MaxInflight])

SessionNext ==
  \/ Next
  \/ \E t \in Turns :
       \/ \E i \in 1..Len(detailInflight[t]) : \E d \in MessageDetail(t) : DetailOk(t, i, d)
       \/ \E i \in 1..Len(detailInflight[t]) : DetailThrows(t, i)
  \/ ScoresTick
  \/ ScoresThrows
  \/ \E data \in ScoresData : ScoresOk(data)
  \/ RefreshSession

SessionSpec == SessionInit /\ [][SessionNext]_vars

\* ------------------------------------------- the surface operations alone
\* The operations that write the rendering surface, applied in any order to
\* arguments drawn from small sets, starting from the empty surface.
SurfaceIds == { TempAssistantId, MessageId(1) }
SurfaceTexts == { Content(1), TypingText }
SurfaceRoles == { "user", "assistant" }
SurfaceScores == {Undefined} \cup Scores

\* The writers of the badge of turn t's message after writer w wrote the
\* badge of the message with id `id`.
WritersAfter(id, wrote, w) ==
  [t \in Turns |-> IF wrote /\ id = MessageId(t) THEN writers[t] \cup {w} ELSE writers[t]]

surfaceFrame ==
  << currentChatId, phase, requests, stepsContainer, statusVars, criticVars, histVars,
     criticStarts, purges, limits, scoreInflight, detailInflight, epoch,
     critiqueDisplays, changes, parseFailed, preferInflight,
                  sentInEpoch, startPending >>

CallAddMessageToChat(id, text, role, criticScore, isDummy) ==
  /\ Len(messages) < MaxSurface \/ QueryMessage(messages, id) # 0
  /\ messages' = addMessageToChat(messages, id, text, role, criticScore, isDummy, NoParent, NoOutput)
  /\ writers' = WritersAfter(id, criticScore # Undefined /\ QueryMessage(messages, id) # 0,
                             "addMessageToChat")
  /\ UNCHANGED surfaceFrame

CallUpdateCriticBadge(messageId, score) ==
  /\ messages' = updateCriticBadge(messages, messageId, score)
  /\ writers' = WritersAfter(messageId, QueryMessage(messages, messageId) # 0,
                             "updateCriticBadge")
  /\ UNCHANGED surfaceFrame

CallRefreshEntry(scoreObj) ==
  LET r == RefreshEntry([ms |-> messages, changed |-> <<>>, fetched |-> <<>>], scoreObj)
  IN /\ messages' = r.ms
     /\ writers' = WritersAfter(scoreObj.id, r.changed # <<>>, "pollCriticScores")
     /\ UNCHANGED surfaceFrame

CallRemovePlaceholders ==
  /\ messages' = removePlaceholders(messages)
  /\ UNCHANGED << surfaceFrame, writers >>

SurfaceNext ==
  \/ \E id \in SurfaceIds, text \in SurfaceTexts, role \in SurfaceRoles,
        criticScore \in SurfaceScores, isDummy \in BOOLEAN :
       CallAddMessageToChat(id, text, role, criticScore, isDummy)
  \/ \E id \in SurfaceIds, score \in RefreshScores : CallUpdateCriticBadge(id, score)
  \/ \E id \in SurfaceIds, score \in {NullScore} \cup RefreshScores :
       CallRefreshEntry([id |-> id, critic_score |-> score])
  \/ CallRemovePlaceholders

SurfaceSpec == Init /\ [][SurfaceNext]_vars

\* ================================================================ claims
\* The status a turn's panel shows ("Initializing..." before the first render).
RenderedStatus(t) == stepsContainer[t].status

\* The elements of the surface that carry message id `id`.
ElementsWithId(ms, id) == { k \in 1..Len(ms) : HasMessageId(ms[k]) /\ ms[k].id = id }

C2_RenderedStatusMonotonic ==
  [][ \A t \in Turns : Rank(RenderedStatus(t)') >= Rank(RenderedStatus(t)) ]_vars

\* C3 (as claimed): a field section shown in a turn's panel is still shown
\* after every later change of the panel.
C3_FieldsNeverRetracted ==
  [][ \A t \in Turns : stepsContainer[t].fields \subseteq stepsContainer'[t].fields ]_vars

\* C4 (as claimed): after a live status loop handled a response, every
\* processing-data field the response carries is shown in the turn's panel.
C4_FieldShownOncePresent ==
  [][ \A t \in Turns : \A i \in 1..Len(inflight[t]) :
        \A d \in StatusData(t, inflight[t][i]) :
          (PollOk(t, i, d) /\ pollInterval[t] /\ d.processing_data.present)
            => d.processing_data.fields \subseteq stepsContainer'[t].fields ]_vars

\* The surface without its placeholders.
WithoutDummies(ms) ==
  LET Real(e) == ~e.dummy IN SelectSeq(ms, Real)

\* C5: the first handled response with a final status and content purges the
\* placeholders, appends exactly one assistant bubble with that content, clears
\* the status interval and starts the critic loop; any other response creates
\* no assistant bubble; a turn never has more than one.
C5_FinalResponseShownOnce ==
  /\ [][ \A t \in Turns : \A i \in 1..Len(inflight[t]) :
           \A d \in StatusData(t, inflight[t][i]) :
             PollOk(t, i, d) =>
               IF IsFinalStatus(d.status) /\ d.content # NoContent
                  /\ "content" \notin finalsSeen[t]
                 THEN /\ Len(messages') = Len(WithoutDummies(messages)) + 1
                      /\ SubSeq(messages', 1, Len(messages') - 1) = WithoutDummies(messages)
                      /\ LET b == messages'[Len(messages')]
                         IN /\ b.id = d.message_id /\ b.text = d.content
                            /\ b.cls = "assistant-message" /\ ~b.dummy
                      /\ bubbles'[t] = bubbles[t] + 1
                      /\ ~pollInterval'[t]
                      /\ criticInterval'[t] /\ criticCeiling'[t] /\ ~criticShown'[t]
                 ELSE /\ bubbles'[t] = bubbles[t]
                      /\ Cardinality(ElementsWithId(messages', MessageId(t)))
                           = Cardinality(ElementsWithId(messages, MessageId(t))) ]_vars
  /\ [](\A t \in Turns :
          /\ bubbles[t] <= 1
          /\ Cardinality(ElementsWithId(messages, MessageId(t))) <= 1)

\* C5 witness: after a first response without effect, a final response with
\* content was handled while the next turn's placeholders were on the surface:
\* the bubble is there, the placeholders are gone, the critic loop runs.
C5_Witness ==
  /\ bubbles[1] = 1 /\ handled[1] >= 2 /\ "content" \in finalsSeen[1]
  /\ phase[2] = "typed" /\ WithoutDummies(messages) = messages
  /\ messages[Len(messages)].id = MessageId(1)
  /\ ~pollInterval[1] /\ criticInterval[1]

\* C6: a handled response with a final status and no content changes neither
\* the surface nor the timers nor the closure flags, and a later final response
\* with content still creates the assistant bubble.
C6_FinalWithoutContentKeepsPolling ==
  [][ \A t \in Turns : \A i \in 1..Len(inflight[t]) :
        \A d \in StatusData(t, inflight[t][i]) :
          PollOk(t, i, d) =>
            /\ (IsFinalStatus(d.status) /\ d.content = NoContent) =>
                 /\ messages' = messages
                 /\ bubbles' = bubbles
                 /\ pollInterval' = pollInterval
                 /\ finalResponseShown' = finalResponseShown
                 /\ criticVars' = criticVars
            /\ (IsFinalStatus(d.status) /\ d.content # NoContent
                /\ finalsSeen[t] = {"empty"}) =>
                 /\ bubbles'[t] = 1
                 /\ \E k \in ElementsWithId(messages', d.message_id) :
                      messages'[k].text = d.content ]_vars

\* C6 witness: a final response without content was handled first, the loop
\* kept polling, and a later final response with content produced the bubble.
C6_Witness ==
  \E t \in Turns :
    /\ finalsSeen[t] = {"empty", "content"} /\ handled[t] = 2
    /\ bubbles[t] = 1 /\ ElementsWithId(messages, MessageId(t)) # {}

\* The 180 s timeout of a turn's status loop has fired.
CeilingFired(t) == phase[t] = "polling" /\ ~pollCeiling[t]

\* C7: when the 180 s timeout fires the interval is cleared and neither the
\* surface nor a panel changes; afterwards no status request is issued; and
\* while every handled response carried the same non-final status, the panel
\* shows that status and the surface holds no assistant bubble of the turn and
\* no error bubble.
C7_CeilingStopsLoopSilently ==
  /\ [][ \A t \in Turns :
           /\ PollCeiling(t) =>
                /\ ~pollInterval'[t]
                /\ messages' = messages
                /\ stepsContainer' = stepsContainer
           /\ CeilingFired(t) =>
                /\ ~pollInterval'[t]
                /\ Len(inflight'[t]) <= Len(inflight[t]) ]_vars
  /\ [](\A t \in Turns : \A s \in Statuses :
          (CeilingFired(t) /\ seen[t] = {s} /\ ~IsFinalStatus(s)) =>
            /\ RenderedStatus(t) = s
            /\ bubbles[t] = 0
            /\ ElementsWithId(messages, MessageId(t)) = {}
            /\ ElementsWithId(messages, ErrorId) = {})

\* C7 witness: the timeout fired after two responses, both search_started, and
\* nothing is pending.
C7_Witness ==
  /\ CeilingFired(1) /\ seen[1] = {"search_started"} /\ handled[1] = 2
  /\ inflight[1] = <<>> /\ RenderedStatus(1) = "search_started"

\* C8: a non-success answer to a status request clears the interval and leaves
\* the surface and the panels as they are; once the interval is cleared no
\* further status request of the turn is issued.
C8_NotOkAbortsStatusLoop ==
  [][ \A t \in Turns :
        /\ \A i \in 1..Len(inflight[t]) :
             PollNotOk(t, i) =>
               /\ ~pollInterval'[t]
               /\ messages' = messages
               /\ stepsContainer' = stepsContainer
        /\ (phase[t] = "polling" /\ ~pollInterval[t]) =>
               /\ ~pollInterval'[t]
               /\ Len(inflight'[t]) <= Len(inflight[t]) ]_vars

\* C8 witness: the interval is cleared although neither the timeout fired nor
\* a final response was shown: a non-success answer did it, after one response
\* had been rendered.
C8_Witness ==
  /\ phase[1] = "polling" /\ ~pollInterval[1] /\ pollCeiling[1]
  /\ ~finalResponseShown[1] /\ handled[1] = 1 /\ requests = 2 /\ inflight[1] = <<>>

\* C9 (as claimed): a status request that fails in transport clears the
\* interval, so that no further status request of the turn is issued.
C9_TransportErrorAbortsStatusLoop ==
  [][ \A t \in Turns : \A i \in 1..Len(inflight[t]) :
        PollThrows(t, i) => ~pollInterval'[t] ]_vars

\* C10 (as claimed): a message-detail request that fails, by a non-success
\* answer or in transport, clears the critic interval and leaves the surface
\* and the panels as they are.
C10_CriticPollFailureStopsLoop ==
  [][ \A t \in Turns :
        (CriticNotOk(t) \/ CriticThrows(t)) =>
          /\ ~criticInterval'[t]
          /\ messages' = messages
          /\ stepsContainer' = stepsContainer ]_vars

\* C11: startCriticPolling runs only in the step of the status loop that shows
\* the final response (the assistant bubble is on the surface after it), at
\* most once per turn; a message-detail request of the critic loop is issued
\* only when the bubble was created; and a turn that handled no final response
\* with content has no critic loop: no timer, no request.
C11_CriticStartedOnlyAtHandoff ==
  /\ [][ \A t \in Turns :
           /\ criticStarts'[t] # criticStarts[t] =>
                /\ criticStarts'[t] = criticStarts[t] + 1
                /\ ~finalResponseShown[t] /\ finalResponseShown'[t]
                /\ bubbles'[t] = bubbles[t] + 1
                /\ ElementsWithId(messages', MessageId(t)) # {}
                /\ \E i \in 1..Len(inflight[t]) : \E d \in StatusData(t, inflight[t][i]) :
                     PollOk(t, i, d) /\ IsFinalStatus(d.status) /\ d.content # NoContent
           /\ (criticInterval'[t] /\ ~criticInterval[t]) => criticStarts'[t] # criticStarts[t]
           /\ CriticTick(t) => (bubbles[t] = 1 /\ ElementsWithId(messages, MessageId(t)) # {}) ]_vars
  /\ [](\A t \in Turns :
          /\ criticStarts[t] <= 1
          /\ "content" \notin finalsSeen[t] =>
               /\ criticStarts[t] = 0
               /\ ~criticInterval[t] /\ ~criticCeiling[t] /\ criticInflight[t] = 0)

\* C11 witness: after a final response without content and one with content
\* the critic loop was started once and its first request is pending.
C11_Witness ==
  /\ criticStarts[1] = 1 /\ finalsSeen[1] = {"empty", "content"}
  /\ criticInflight[1] = 1 /\ ElementsWithId(messages, MessageId(1)) # {}

\* C12 (as claimed): the critique panel of a message is displayed at most once
\* in total, by the critic loop and the background score refresher together.
C12_CritiqueDisplayedAtMostOnce ==
  \A t \in Turns : critiqueDisplays[t] <= 1

\* C13 (as claimed): the critique gate is read and set in one step, so that at
\* no time two message-detail fetches of the background score refresher, each
\* started after reading the gate open, are pending for the same message.
C13_GateCheckedAndSetInOneStep ==
  \A t \in Turns : Len(detailInflight[t]) <= 1

\* The text of the score badge of the message with id `id` on surface ms
\* (EmptyText when there is no badge).
BadgeOf(ms, id) ==
  LET k == QueryMessage(ms, id)
  IN IF k = 0 \/ Len(ms[k].badges) = 0 THEN EmptyText ELSE ms[k].badges[1]

\* A badge text that displays score s: as either writer writes it.
Shows(text, s) == text = ToString10(s) \/ text = ToFixed1(s)

\* C14 (as claimed): after every successful message-detail response of the
\* critic loop that carries a critic score, the badge of the message (while it
\* is on the surface) shows that score, whatever the response holds otherwise.
C14_BadgeSetOnEveryScoredPoll ==
  [][ \A t \in Turns : \A d \in MessageDetail(t) :
        (CriticOk(t, d) /\ d.critic_score # Undefined
         /\ QueryMessage(messages, d.id) # 0)
          => BadgeOf(messages', d.id) = ToFixed1(d.critic_score) ]_vars

\* C16 (as claimed): when the badge of a message shows score s and s is
\* delivered again, by the background refresher or by the critic loop, the
\* badge text stays as it is, and the refresher counts no change and starts no
\* message-detail fetch.
C16_SameScoreIsNoChange ==
  [][ \A t \in Turns : \A s \in RefreshScores :
        /\ Shows(BadgeOf(messages, MessageId(t)), s) =>
             /\ \A data \in ScoresData :
                  ( /\ ScoresOk(data)
                    /\ data.scores = << [id |-> MessageId(t), critic_score |-> s] >> )
                    => /\ BadgeOf(messages', MessageId(t)) = BadgeOf(messages, MessageId(t))
                       /\ changes' = changes
                       /\ detailInflight' = detailInflight
             /\ \A d \in MessageDetail(t) :
                  (CriticOk(t, d) /\ d.critic_score = s)
                    => BadgeOf(messages', MessageId(t)) = BadgeOf(messages, MessageId(t)) ]_vars

\* C15: no element of the surface has more than one score-badge node.
C15_AtMostOneBadge ==
  \A k \in 1..Len(messages) : Len(messages[k].badges) <= 1

\* C15 witness: all three writers have written the badge of one message, and
\* it has one badge.
C15_Witness ==
  /\ writers[1] = {"addMessageToChat", "updateCriticBadge", "pollCriticScores"}
  /\ QueryMessage(messages, MessageId(1)) # 0
  /\ Len(messages[QueryMessage(messages, MessageId(1))].badges) = 1

\* C18: addMessageToChat with an id that is not on the surface appends exactly
\* one element, at the end, carrying the id, text, role and placeholder mark
\* given; with an id that is on the surface it leaves the number and order of
\* the elements and the element's text, role and placeholder mark as they are
\* and only writes the badge, and that only when a score is given.
C18_UpsertFrame ==
  [][ \A id \in SurfaceIds, text \in SurfaceTexts, role \in SurfaceRoles,
         criticScore \in SurfaceScores, isDummy \in BOOLEAN :
        CallAddMessageToChat(id, text, role, criticScore, isDummy) =>
          LET i == QueryMessage(messages, id) IN
          IF i = 0
            THEN /\ Len(messages') = Len(messages) + 1
                 /\ SubSeq(messages', 1, Len(messages)) = messages
                 /\ LET e == messages'[Len(messages')]
                    IN /\ e.id = id /\ e.text = text /\ e.dummy = isDummy
                       /\ e.cls = (IF role = "assistant" THEN "assistant-message"
                                   ELSE "user-message")
                       /\ Len(e.badges) <= 1
            ELSE /\ Len(messages') = Len(messages)
                 /\ \A k \in 1..Len(messages) :
                      /\ k # i => messages'[k] = messages[k]
                      /\ messages'[k].id = messages[k].id
                      /\ messages'[k].text = messages[k].text
                      /\ messages'[k].cls = messages[k].cls
                      /\ messages'[k].dummy = messages[k].dummy
                      /\ messages'[k].displayed = messages[k].displayed
                 /\ criticScore = Undefined => messages' = messages
                 /\ criticScore # Undefined =>
                      /\ messages'[i].badges[1] = ToString10(criticScore)
                      /\ Len(messages'[i].badges) = (IF Len(messages[i].badges) = 0 THEN 1
                                                     ELSE Len(messages[i].badges)) ]_vars

\* C18 witness: a message created as a user message (so without a badge) has a
\* badge that only addMessageToChat, called again with its id and a score, has
\* written; its text and role are those of its creation.
C18_Witness ==
  /\ writers[1] = {"addMessageToChat"}
  /\ QueryMessage(messages, MessageId(1)) # 0
  /\ LET e == messages[QueryMessage(messages, MessageId(1))]
     IN e.cls = "user-message" /\ e.badges = << <<8>> >> /\ e.text = TypingText

\* C17: no two elements of the surface carry the same message id.
C17_OneElementPerId ==
  \A j \in 1..Len(messages) : \A k \in 1..Len(messages) :
    (HasMessageId(messages[j]) /\ HasMessageId(messages[k])
     /\ messages[j].id = messages[k].id) => j = k

\* C17 witness: after a session reset the final response of turn 1 and the
\* user message of turn 2 were added to the surface next to the reset notice.
C17_Witness ==
  /\ epoch = 1
  /\ ElementsWithId(messages, SystemRefreshId) # {}
  /\ ElementsWithId(messages, MessageId(1)) # {}
  /\ ElementsWithId(messages, UserMsgId(2)) # {}

\* The placeholders of turn t on surface ms: those sendToServer added for it,
\* and the shared one of handleSend while it shows the turn's input.
PlaceholdersOf(ms, t) ==
  { k \in 1..Len(ms) :
      /\ ms[k].dummy
      /\ \/ ms[k].id \in {TempUserTsId(t), TempAssistantTsId(t)}
         \/ ms[k].text = UserInput(t) }

\* The turn is resolved: its user message or its error message was inserted.
Resolved(t) == phase[t] \in {"polling", "failed"}

\* C19: once a turn is resolved none of its placeholders is on the surface, and
\* the step that inserts a turn's user message, error message or final
\* response leaves no placeholder at all next to it.
C19_NoPlaceholderBesideResolution ==
  /\ [](\A t \in Turns : Resolved(t) => PlaceholdersOf(messages, t) = {})
  /\ [][ \A t \in Turns :
           ((~Resolved(t) /\ Resolved(t)') \/ bubbles'[t] # bubbles[t])
             => WithoutDummies(messages') = messages' ]_vars

\* C19 witness: turn 1 is resolved and its user message is shown while the
\* placeholders sendToServer added for turn 2 are on the surface.
C19_Witness ==
  /\ phase[1] = "polling" /\ phase[2] = "sending"
  /\ ElementsWithId(messages, UserMsgId(1)) # {}
  /\ ElementsWithId(messages, TempAssistantTsId(2)) # {}
  /\ PlaceholdersOf(messages, 1) = {}

\* C20 (as claimed): the code of a turn calls removePlaceholders exactly once:
\* never more than once, and once when the turn is resolved.
C20_PurgeExactlyOncePerTurn ==
  \A t \in Turns :
    /\ purges[t] <= 1
    /\ Resolved(t) => purges[t] = 1

\* The error bubbles on surface ms.
ErrorBubbles(ms) == ElementsWithId(ms, ErrorId)

\* C21 (as claimed): every failed submission, the second and later ones
\* included, adds exactly one error bubble to the surface, and
\* an error bubble carries the text of that failure.
C21_EveryFailureShowsItsError ==
  [][ \A t \in Turns :
        /\ SubmitError(t) =>
             /\ Cardinality(ErrorBubbles(messages')) = Cardinality(ErrorBubbles(messages)) + 1
             /\ \E i \in ErrorBubbles(messages') : messages'[i].text = SubmitErrorText(t)
        /\ SubmitThrows(t) =>
             /\ Cardinality(ErrorBubbles(messages')) = Cardinality(ErrorBubbles(messages)) + 1
             /\ \E i \in ErrorBubbles(messages') : messages'[i].text = TransportErrorText ]_vars

\* C24 (as claimed): a status response handled after the status interval was
\* cleared, and a message-detail response handled after the critic interval
\* was cleared, change neither the surface nor a panel and start no loop.
C24_LateResponseDiscarded ==
  [][ \A t \in Turns :
        /\ \A i \in 1..Len(inflight[t]) : \A d \in StatusData(t, inflight[t][i]) :
             (PollOk(t, i, d) /\ ~pollInterval[t]) =>
               /\ messages' = messages
               /\ stepsContainer' = stepsContainer
               /\ criticVars' = criticVars
        /\ \A d \in MessageDetail(t) :
             (CriticOk(t, d) /\ ~criticInterval[t]) =>
               /\ messages' = messages
               /\ stepsContainer' = stepsContainer ]_vars

\* C22: a failed submission (error response or transport failure) leaves the
\* active chat id, both loops of every turn and the request count as they
\* were; the failed turn has no timer, no request, no panel and no critic loop,
\* and it is not submitted again.
C22_FailurePerformsNothingFurther ==
  /\ [][ \A t \in Turns :
           (SubmitError(t) \/ SubmitThrows(t)) =>
             /\ currentChatId' = currentChatId
             /\ statusVars' = statusVars
             /\ criticVars' = criticVars
             /\ stepsContainer' = stepsContainer
             /\ requests' = requests
             /\ criticStarts' = criticStarts ]_vars
  /\ [](\A t \in Turns :
          phase[t] = "failed" =>
            /\ ~pollInterval[t] /\ ~pollCeiling[t]
            /\ ~criticInterval[t] /\ ~criticCeiling[t]
            /\ inflight[t] = <<>> /\ criticInflight[t] = 0
            /\ stepsContainer[t] = NoPanel
            /\ handled[t] = 0 /\ criticStarts[t] = 0)
  /\ [][ \A t \in Turns : phase[t] = "failed" => phase'[t] = "failed" ]_vars

\* C22 witness: the second turn failed while the first one, submitted with
\* success, holds a chat id and is still being polled.
C22_Witness ==
  /\ phase[1] = "polling" /\ pollInterval[1]
  /\ phase[2] = "failed"
  /\ currentChatId \in SessionChatIds
  /\ epoch = 0

\* The steps elements of turn t on surface ms: one per startStatusPolling call.
StepsElementsOf(ms, t) == { k \in 1..Len(ms) : ms[k] = StepsElement(t) }

\* C23: the step that handles a successful submission response stores the
\* returned chat id, leaves no placeholder of the turn, leaves a user message
\* with the server's id and content on the surface and starts the turn's status
\* loop, once, for the returned message id; no other step starts a status loop.
C23_SuccessfulSubmission ==
  /\ [][ \A t \in Turns : \A c \in SessionChatIds :
           SubmitOk(t, c) =>
             /\ currentChatId' = c
             /\ PlaceholdersOf(messages', t) = {}
             /\ \E k \in ElementsWithId(messages', UserMsgId(t)) :
                  /\ messages'[k].text = UserContent(t)
                  /\ messages'[k].cls = "user-message"
                  /\ ~messages'[k].dummy
             /\ ~pollInterval[t] /\ pollInterval'[t] /\ pollCeiling'[t]
             /\ Cardinality(StepsElementsOf(messages', t)) = 1
             /\ inflight'[t] = <<>> /\ lastStatus'[t] = "" ]_vars
  /\ [][ \A t \in Turns :
           (~pollInterval[t] /\ pollInterval'[t]) => \E c \in SessionChatIds : SubmitOk(t, c) ]_vars

\* C23 witness: both turns were submitted with success, the second one under
\* another chat id than the first, and both status loops run.
C23_Witness ==
  /\ phase[1] = "polling" /\ phase[2] = "polling"
  /\ pollInterval[1] /\ pollInterval[2]
  /\ currentChatId = "chat2"
  /\ ElementsWithId(messages, UserMsgId(1)) # {}
  /\ ElementsWithId(messages, UserMsgId(2)) # {}
  /\ epoch = 0

\* C26: a message-detail response whose search_output is not JSON leaves the
\* critic interval, the gate, the panel and the surface as they were, and a
\* well-formed response with critique or regenerated content handled while the
\* gate is open renders the critique into the panel, after a malformed one as
\* well.
C26_ParseErrorIsNotFatal ==
  [][ \A t \in Turns : \A d \in MessageDetail(t) :
        CriticOk(t, d) =>
          /\ (d.search_output.present /\ ~d.search_output.wellformed) =>
               /\ criticInterval'[t] = criticInterval[t]
               /\ criticShown'[t] = criticShown[t]
               /\ stepsContainer' = stepsContainer
               /\ messages' = messages
          /\ ( /\ d.search_output.wellformed
               /\ d.search_output.critique \/ d.search_output.regenerated_content
               /\ ~criticShown[t] ) =>
               /\ stepsContainer'[t].critique = stepsContainer[t].critique + 1
               /\ criticShown'[t] ]_vars

\* C26 witness: the critic loop met a malformed search_output while it was
\* watching, went on polling and has rendered the critique of a later response.
C26_Witness ==
  /\ parseFailed[1]
  /\ criticShown[1]
  /\ stepsContainer[1].critique = 1
  /\ critiqueDisplays[1] = 1

\* C29: the critic loop of a turn renders the critique into the turn's panel
\* at most once, whatever the responses carry and in whatever order overlapping
\* polls resolve; the step that renders it sets the gate and clears the
\* interval; the interval is cleared only by that step, by a response that is
\* not ok or by the 120 s timeout, and the timeout leaves it cleared.
C29_CritiqueRenderedOnce ==
  /\ [](\A t \in Turns : stepsContainer[t].critique <= 1)
  /\ [][ \A t \in Turns :
           stepsContainer'[t].critique > stepsContainer[t].critique =>
             /\ ~criticShown[t] /\ criticShown'[t]
             /\ ~criticInterval'[t] ]_vars
  /\ [][ \A t \in Turns :
           (criticInterval[t] /\ ~criticInterval'[t]) =>
             \/ ~criticShown[t] /\ criticShown'[t]
             \/ CriticNotOk(t)
             \/ CriticCeiling(t) ]_vars
  /\ [][ \A t \in Turns : CriticCeiling(t) => ~criticInterval'[t] ]_vars

\* C29 witness: the critique was rendered once and the interval cleared while
\* an overlapping poll of the same loop is still awaiting its response.
C29_Witness ==
  /\ criticShown[1] /\ ~criticInterval[1]
  /\ stepsContainer[1].critique = 1
  /\ criticInflight[1] >= 1

\* The status loop of turn t handled exactly the five responses of the
\* scenario: five responses, in pipeline order, one for each of the five
\* statuses, the final one carrying content.
ScenarioProcessed(t) ==
  /\ handled[t] = 5
  /\ ordered[t]
  /\ seen[t] = ScenarioStatuses
  /\ finalsSeen[t] = {"content"}

\* The final assistant bubbles of turn t on the surface.
FinalBubbles(t) ==
  { k \in ElementsWithId(messages, MessageId(t)) :
      messages[k].cls = "assistant-message" /\ messages[k].text = Content(t) }

\* C27 (as claimed): after the five responses of the scenario the panel was
\* rendered four times and one final assistant bubble holds the content.
C27_FourPanelStates ==
  \A t \in Turns :
    ScenarioProcessed(t) =>
      /\ renders[t] = 4
      /\ bubbles[t] = 1
      /\ Cardinality(FinalBubbles(t)) = 1

\* C27 (amended): after the five responses of the scenario the panel was
\* rendered five times, once for each status, the final one included, each
\* render showing a status not shown before; one final assistant bubble holds
\* the content.
C27_FivePanelStates ==
  /\ [](\A t \in Turns :
          ScenarioProcessed(t) =>
            /\ renders[t] = 5
            /\ RenderedStatus(t) = "response_generated"
            /\ bubbles[t] = 1
            /\ Cardinality(FinalBubbles(t)) = 1)
  /\ [][ \A t \in Turns :
           (renders'[t] > renders[t] /\ ordered'[t]) =>
             /\ renders'[t] = renders[t] + 1
             /\ stepsContainer'[t] # stepsContainer[t]
             /\ stepsContainer'[t].status \notin seen[t] ]_vars

\* C27 witness: the loop of turn 1 handled the five responses of the scenario.
C27_Witness == ScenarioProcessed(1) /\ renders[1] = 5

\* C30: every status loop and every critic loop that was started is
\* eventually stopped for good: from some point on its interval stays cleared,
\* so that no tick of it issues a request any more.
C30_EveryLoopStops ==
  \A t \in Turns : <>[](~pollInterval[t] /\ ~criticInterval[t])

\* C30 witness: both loops of turn 1 were started and both are stopped, the
\* critic loop by its timeout, with the request budget not used up.
C30_Witness ==
  /\ phase[1] = "polling" /\ criticStarts[1] = 1
  /\ ~pollInterval[1] /\ ~criticInterval[1]
  /\ ~criticCeiling[1] /\ ~criticShown[1]
  /\ requests < limits.requests

\* Element e of the surface is still on surface ms: an element with the same
\* class, id and text, not marked as a placeholder (badges and the critique
\* gate may have been written in place).
StillOn(ms, e) ==
  \E j \in 1..Len(ms) :
    /\ ms[j].cls = e.cls /\ ms[j].id = e.id /\ ms[j].text = e.text
    /\ ~ms[j].dummy

\* C28: every step other than refreshSession keeps every element of the
\* surface that is not marked as a placeholder, and the number of such
\* elements does not shrink; only placeholder-marked elements are ever removed
\* one by one.
C28_OnlyResetRemovesMessages ==
  [][ \/ RefreshSession
      \/ /\ \A k \in 1..Len(messages) : ~messages[k].dummy => StillOn(messages', messages[k])
         /\ Len(WithoutDummies(messages')) >= Len(WithoutDummies(messages)) ]_vars

\* C28 witness: the final response, the user message and the steps element of
\* turn 1 are on the surface after the purges of both turns ran, the second
\* turn having failed.
C28_Witness ==
  /\ epoch = 0
  /\ purges[1] = 2 /\ purges[2] = 1
  /\ phase[2] = "failed"
  /\ FinalBubbles(1) # {}
  /\ ElementsWithId(messages, UserMsgId(1)) # {}
  /\ StepsElementsOf(messages, 1) # {}
  /\ ErrorBubbles(messages) # {}

\* The elements of surface ms that are output k for parent message P.
OutputsOf(ms, P, k) == { j \in 1..Len(ms) : ms[j].parent = P /\ ms[j].output = k }

\* C25: an accepted preferOutput(P, k) was sent under a chat; it hides the
\* element (P, 3-k), keeps every element on the surface and changes nothing
\* else, so that an output (P, k) that was visible stays visible; a prefer
\* request answered with an error or failing changes nothing on the surface,
\* and without an active chat preferOutput sends nothing.
C25_PreferHidesSibling ==
  /\ [][ \A i \in 1..Len(preferInflight) :
           PreferAccepted(i) =>
             LET r == preferInflight[i] IN
               /\ r.chat # NULL
               /\ Len(messages') = Len(messages)
               /\ \A j \in 1..Len(messages) :
                    IF j \in OutputsOf(messages, r.parent, 3 - r.output)
                      THEN messages'[j] = [messages[j] EXCEPT !.hidden = TRUE]
                      ELSE messages'[j] = messages[j] ]_vars
  /\ [][ \A i \in 1..Len(preferInflight) :
           (PreferError(i) \/ PreferThrows(i)) => messages' = messages ]_vars
  /\ [][ \A t \in Turns, k \in OutputNumbers :
           (currentChatId = NULL /\ PreferOutput(UserMsgId(t), k)) =>
             UNCHANGED << messages, preferInflight >> ]_vars

\* C25 witness: both outputs for the user message of turn 1 are on the
\* surface, output 1 hidden by an accepted preference for output 2 and output 2
\* visible, in the session the outputs were rendered in.
C25_Witness ==
  /\ epoch = 0
  /\ \E j \in OutputsOf(messages, UserMsgId(1), 1) : messages[j].hidden
  /\ \E j \in OutputsOf(messages, UserMsgId(1), 2) : ~messages[j].hidden
  /\ preferInflight = <<>>

\* The state of the two loops of turn t and its panel.
LoopState(t) ==
  << pollInterval[t], pollCeiling[t], lastStatus[t], finalResponseShown[t], inflight[t],
     criticInterval[t], criticCeiling[t], criticShown[t], criticInflight[t],
     stepsContainer[t] >>

\* C31: a step that changes anything of one turn's loops or panel leaves the
\* loops and the panel of every other turn as they were; in particular a
\* ceiling timeout, a response that is not ok and a rejected request of one
\* turn do.
C31_LoopsIndependent ==
  /\ [][ \A t, u \in Turns :
           (t # u /\ LoopState(t)' # LoopState(t)) => LoopState(u)' = LoopState(u) ]_vars
  /\ [][ \A t, u \in Turns :
           ( /\ t # u
             /\ \/ PollCeiling(t) \/ CriticCeiling(t) \/ CriticNotOk(t) \/ CriticThrows(t)
                \/ \E i \in 1..Len(inflight[t]) : PollNotOk(t, i) \/ PollThrows(t, i) )
           => LoopState(u)' = LoopState(u) ]_vars

\* C31 witness: the status loop of turn 1 stopped on its final response while
\* the loop of turn 2 is live and shows the status it rendered.
C31_Witness ==
  /\ finalResponseShown[1] /\ ~pollInterval[1] /\ criticInterval[1]
  /\ pollInterval[2] /\ lastStatus[2] = "processing_started"
  /\ RenderedStatus(2) = "processing_started"
  /\ epoch = 0

\* Turn t was submitted before the last session reset and is not resolved as
\* failed: its submission response or its loops may still act.
SubmittedBeforeReset(t) ==
  /\ phase[t] \in {"sending", "polling"}
  /\ sentInEpoch[t] < epoch

\* C32 (as claimed): no step adds a user bubble, an assistant bubble or an
\* error bubble of a turn that was submitted before the last session reset.
C32_NoMessageOfEarlierSession ==
  [][ \A t \in Turns :
        SubmittedBeforeReset(t) =>
          /\ Cardinality(ElementsWithId(messages', UserMsgId(t)))
               <= Cardinality(ElementsWithId(messages, UserMsgId(t)))
          /\ Cardinality(ElementsWithId(messages', MessageId(t)))
               <= Cardinality(ElementsWithId(messages, MessageId(t)))
          /\ (SubmitError(t) \/ SubmitThrows(t)) =>
               Cardinality(ErrorBubbles(messages')) <= Cardinality(ErrorBubbles(messages)) ]_vars

\* C33 (as claimed): after a session reset the chat id is set again only by
\* the successful response of a submission that was issued after that reset.
C33_ChatIdStaysNoneAfterReset ==
  [][ (epoch >= 1 /\ currentChatId = NULL /\ currentChatId' # NULL) =>
        \E t \in Turns : \E c \in SessionChatIds :
          SubmitOk(t, c) /\ sentInEpoch[t] = epoch ]_vars

\* C34 (as claimed): the critique blocks in a turn's panel are never erased:
\* no step leaves the panel with fewer of them than it had.
C34_CritiqueStaysInPanel ==
  [][ \A t \in Turns :
        stepsContainer'[t].critique >= stepsContainer[t].critique ]_vars

\* The critique containers on surface ms.
CritiqueContainers(ms) == { k \in 1..Len(ms) : ms[k].cls = "critique-container" }

\* The message of turn t on surface ms carries data-critique-displayed.
MarkedDisplayed(ms, t) ==
  LET k == QueryMessage(ms, MessageId(t)) IN k # 0 /\ ms[k].displayed

\* C35 (as claimed): a step that marks a message critique-displayed is a step
\* that appended a critique container to the surface.
C35_MarkedOnlyWhenRendered ==
  [][ \A t \in Turns :
        (~MarkedDisplayed(messages, t) /\ MarkedDisplayed(messages', t)) =>
          Cardinality(CritiqueContainers(messages'))
            > Cardinality(CritiqueContainers(messages)) ]_vars

\* The placeholder bubbles on surface ms that show the user's text of turn t.
UserTextPlaceholders(ms, t) ==
  { k \in 1..Len(ms) :
      ms[k].dummy /\ ms[k].cls = "user-message" /\ ms[k].text = UserInput(t) }

\* Turn t is resolved by this step: its submission response is handled.
ResolvedByStep(t) == phase[t] = "sending" /\ phase'[t] # "sending"

\* C36 (as claimed): while a turn awaits its submission response exactly one
\* placeholder shows its text, and a step that does not resolve the turn (and
\* does not reset the session) leaves its placeholders on the surface.
C36_OnePlaceholderPerPendingTurn ==
  /\ [](\A t \in Turns :
          phase[t] = "sending" => Cardinality(UserTextPlaceholders(messages, t)) = 1)
  /\ [][ \A t \in Turns :
           (phase[t] = "sending" /\ ~ResolvedByStep(t) /\ epoch' = epoch) =>
             Cardinality(PlaceholdersOf(messages', t))
               >= Cardinality(PlaceholdersOf(messages, t)) ]_vars

\* C36, second part alone (as claimed): a step that neither resolves a pending
\* turn nor resets the session leaves that turn's placeholders on the surface.
C36_PurgeOnlyOwnPlaceholders ==
  [][ \A t \in Turns :
        (phase[t] = "sending" /\ ~ResolvedByStep(t) /\ epoch' = epoch) =>
          Cardinality(PlaceholdersOf(messages', t))
            >= Cardinality(PlaceholdersOf(messages, t)) ]_vars

====
